---- MODULE Spec2Model ----
(***************************************************************************)
(* Video-highlight backend: the registry (four in-memory maps), the file   *)
(* store, the request handlers of main.py and the background pipeline      *)
(* process_video, one coroutine per uploaded video on one event loop.      *)
(*                                                                         *)
(* Time is counted in tenths of a second.  A posting date is counted in    *)
(* days after the day the plan is generated.  Optional[...] fields are     *)
(* sequences of length at most one: <<>> is Python's None.                 *)
(***************************************************************************)
EXTENDS Integers, Sequences, FiniteSets, TLC

\* Longest list of candidate intervals the highlight inference returns.
MaxIntervals == 2

\* How many artifact files some other process may remove from storage.
MaxExternalRemovals == 1

\* uuid4() values handed to uploads.
VideoIds == {"v1", "v2"}

\* The order in which uploads draw them.
IdOrder == [v \in VideoIds |-> IF v = "v1" THEN 1 ELSE 2]

\* Durations a source can report.
Durations == {300}

\* Declared media types a client can send.
ContentTypes == {"video/mp4", "video/quicktime", "video/x-msvideo", "image/png"}

\* str(e) of an exception raised by a media or inference capability.
CapabilityErrors == {"CapabilityFailure", ""}

None == <<>>

Some(x) == <<x>>

\* dict.get(key, default) on an optional field.
Get(opt, default) == IF opt = None THEN default ELSE opt[1]

\* d[k] = val
Put(d, k, val) == [x \in (DOMAIN d) \cup {k} |-> IF x = k THEN val ELSE d[x]]

\* del d[k]
Del(d, k) == [x \in (DOMAIN d) \ {k} |-> d[x]]

Max(a, b) == IF a >= b THEN a ELSE b

Min(a, b) == IF a <= b THEN a ELSE b

(***************************************************************************)
(* Paths and identifiers                                                   *)
(***************************************************************************)
Path(dir, v, i) == [dir |-> dir, job |-> v, idx |-> i]

\* os.path.join("uploads", f"{video_id}_{file.filename}")
UploadPath(v) == Path("uploads", v, 0)

\* os.path.join("clips", f"{video_id}_highlight_{i}.mp4"), i counted from 0
ClipPath(v, i) == Path("clips", v, i)

\* The uuid4() drawn for the i-th highlight of v: fresh, so one per (v, i).
HighlightId(v, i) == <<v, i>>

\* os.path.join("thumbnails", f"{highlight_id}.jpg")
ThumbnailPath(v, i) == Path("thumbnails", v, i)

\* os.path.join("subtitles", f"{highlight_id}.vtt")
SubtitlePath(v, i) == Path("subtitles", v, i)

\* os.path.join("content_plans", f"{video_id}_content_plan.json")
ContentPlanPath(v) == Path("content_plans", v, 0)

(***************************************************************************)
(* State                                                                   *)
(***************************************************************************)
VARIABLES
    videos_db,             \* video_id -> VideoMetadata
    highlights_db,         \* insertion-ordered dict of HighlightClip, as a sequence
    content_plans_db,      \* video_id -> ContentPlan
    processing_status_db,  \* video_id -> ProcessingStatus.status
    files,                 \* the paths that exist on storage
    task,                  \* video_id -> the frame of its process_video coroutine
    plan_calls,            \* video ids whose highlights were sent to content-plan inference
    removals,              \* files removed by other processes so far
    bad_requests           \* declared types of the uploads answered 400

vars == <<videos_db, highlights_db, content_plans_db, processing_status_db,
          files, task, plan_calls, removals, bad_requests>>

registry == <<videos_db, highlights_db, content_plans_db, processing_status_db>>

\* The frame of a coroutine that was never scheduled.
NoTask ==
    [pc |-> "none", duration |-> None, analysis_result |-> None, highlights |-> <<>>,
     i |-> 0, highlight_clips |-> <<>>, content_plan |-> None, exc |-> None]

Init ==
    /\ videos_db = <<>>
    /\ highlights_db = <<>>
    /\ content_plans_db = <<>>
    /\ processing_status_db = <<>>
    /\ files = {}
    /\ task = [v \in VideoIds |-> NoTask]
    /\ plan_calls = {}
    /\ removals = 0
    /\ bad_requests = {}

\* Positions of process_video at which the coroutine is suspended in an await
\* (or not started, or over): only then does the event loop run anything else.
Suspended == {"none", "scheduled", "await_analyze", "await_subtitles", "await_plan",
              "done", "crashed"}

\* The event loop is free: no coroutine is between two awaits.
Idle == \A v \in VideoIds : task[v].pc \in Suspended

(***************************************************************************)
(* Request handlers                                                        *)
(***************************************************************************)
allowed_types == {"video/mp4", "video/quicktime", "video/x-msvideo"}

\* VideoMetadata(...) as upload_video builds it.
NewVideoMetadata(v) ==
    [upload_path |-> UploadPath(v), processing_status |-> "PROCESSING",
     error_message |-> None, duration |-> None, highlights_count |-> None,
     content_plan_path |-> None]

\* The uuid4() the next upload draws: a fresh one, taken in a fixed order.
NextId == CHOOSE v \in VideoIds :
            /\ task[v].pc = "none"
            /\ \A w \in VideoIds : task[w].pc = "none" => IdOrder[v] <= IdOrder[w]

\* The status code of POST /api/upload for declared type t.
upload_status(t) == IF t \notin allowed_types THEN 400 ELSE 200

\* upload_video with the media-type check made after the Job is recorded.
upload_video_CheckLast(t) ==
    /\ Idle
    /\ \E v \in VideoIds : task[v].pc = "none"
    /\ files' = files \cup {UploadPath(NextId)}
    /\ videos_db' = Put(videos_db, NextId, NewVideoMetadata(NextId))
    /\ UNCHANGED <<highlights_db, content_plans_db, processing_status_db, plan_calls,
                   removals>>
    /\ IF t \notin allowed_types
       THEN /\ bad_requests' = bad_requests \cup {t}
            /\ UNCHANGED task
       ELSE /\ task' = [task EXCEPT ![NextId].pc = "scheduled"]
            /\ UNCHANGED bad_requests

\* POST /api/upload with declared type t.
upload_video(t) ==
    /\ Idle
    /\ \E v \in VideoIds : task[v].pc = "none"
    /\ IF upload_status(t) = 400
       THEN /\ bad_requests' = bad_requests \cup {t}
            /\ UNCHANGED <<registry, files, task, plan_calls, removals>>
       ELSE /\ files' = files \cup {UploadPath(NextId)}
            /\ videos_db' = Put(videos_db, NextId, NewVideoMetadata(NextId))
            /\ task' = [task EXCEPT ![NextId].pc = "scheduled"]
            /\ UNCHANGED <<highlights_db, content_plans_db, processing_status_db,
                           plan_calls, removals, bad_requests>>

\* os.remove(p): raises when p does not exist.  st = [fs, db, raised].
OsRemove(st, p) ==
    IF p \in st.fs THEN [st EXCEPT !.fs = st.fs \ {p}]
    ELSE [st EXCEPT !.raised = TRUE]

\* os.remove(p) without the os.path.exists(p) test.
RemoveUnchecked(st, p) == IF st.raised THEN st ELSE OsRemove(st, p)

\* if os.path.exists(p): os.remove(p)   (once a statement raised, nothing more runs)
RemoveIfExists(st, p) ==
    IF st.raised THEN st
    ELSE IF p \in st.fs THEN OsRemove(st, p) ELSE st

\* if highlight.id in highlights_db: del highlights_db[highlight.id]
DelHighlight(st, id) ==
    IF st.raised THEN st
    ELSE LET Other(h) == h.id # id IN [st EXCEPT !.db = SelectSeq(st.db, Other)]

\* The loop of delete_video over the highlights hs of the video.
RECURSIVE DeleteHighlights(_, _)
DeleteHighlights(st, hs) ==
    IF hs = <<>> THEN st
    ELSE DeleteHighlights(
            DelHighlight(
                RemoveIfExists(RemoveIfExists(RemoveIfExists(st, Head(hs).clip_path),
                                              Head(hs).thumbnail_path),
                               Head(hs).subtitle_path),
                Head(hs).id),
            Tail(hs))

\* The list of delete_video and get_highlights without the test of video_id.
HighlightsOf_Unfiltered(v) == highlights_db

\* [h for h in highlights_db.values() if h.video_id == video_id]
HighlightsOf(v) == LET Owned(h) == h.video_id = v IN SelectSeq(highlights_db, Owned)

\* Lines 255-279 of delete_video for a video in videos_db: the file store and the
\* highlight map they leave, and whether a statement raised.
DeleteFiles(v) ==
    DeleteHighlights(
        RemoveIfExists([fs |-> files, db |-> highlights_db, raised |-> FALSE],
                       videos_db[v].upload_path),
        HighlightsOf(v))

\* The status code of DELETE /api/videos/{video_id}.
delete_status(v) ==
    IF v \notin DOMAIN videos_db THEN 404
    ELSE IF DeleteFiles(v).raised THEN 500
    ELSE 200

\* delete_video leaving the ProcessingStatus record of the video in place.
delete_video_KeepStatus(v) ==
    /\ Idle
    /\ UNCHANGED <<task, plan_calls, removals, bad_requests, processing_status_db>>
    /\ IF v \notin DOMAIN videos_db
       THEN UNCHANGED <<videos_db, highlights_db, content_plans_db, files>>
       ELSE /\ files' = DeleteFiles(v).fs
            /\ highlights_db' = DeleteFiles(v).db
            /\ content_plans_db' = Del(content_plans_db, v)
            /\ videos_db' = Del(videos_db, v)

\* delete_video leaving the ContentPlan of the video in content_plans_db.
delete_video_KeepPlan(v) ==
    /\ Idle
    /\ UNCHANGED <<task, plan_calls, removals, bad_requests, content_plans_db>>
    /\ IF v \notin DOMAIN videos_db
       THEN UNCHANGED <<videos_db, highlights_db, processing_status_db, files>>
       ELSE /\ files' = DeleteFiles(v).fs
            /\ highlights_db' = DeleteFiles(v).db
            /\ videos_db' = Del(videos_db, v)
            /\ processing_status_db' = Del(processing_status_db, v)

\* DELETE /api/videos/{video_id}
delete_video(v) ==
    /\ Idle
    /\ UNCHANGED <<task, plan_calls, removals, bad_requests>>
    /\ IF v \notin DOMAIN videos_db
       THEN UNCHANGED <<registry, files>>
       ELSE /\ files' = DeleteFiles(v).fs
            /\ highlights_db' = DeleteFiles(v).db
            /\ IF DeleteFiles(v).raised
               THEN UNCHANGED <<videos_db, content_plans_db, processing_status_db>>
               ELSE /\ content_plans_db' = Del(content_plans_db, v)
                    /\ videos_db' = Del(videos_db, v)
                    /\ processing_status_db' = Del(processing_status_db, v)

\* GET /api/status/{video_id}
get_processing_status(v) ==
    IF v \notin DOMAIN processing_status_db THEN [status |-> 404]
    ELSE [status |-> 200, body |-> processing_status_db[v]]

\* GET /api/videos/{video_id}/highlights
get_highlights(v) ==
    IF v \notin DOMAIN videos_db THEN [status |-> 404]
    ELSE [status |-> 200, body |-> HighlightsOf(v)]

\* GET /api/videos/{video_id}/content_plan
get_content_plan(v) ==
    IF v \notin DOMAIN videos_db THEN [status |-> 404]
    ELSE IF v \notin DOMAIN content_plans_db THEN [status |-> 404]
    ELSE [status |-> 200, body |-> content_plans_db[v]]

\* Another process removes an artifact file from storage.
ExternalRemove(p) ==
    /\ Idle
    /\ removals < MaxExternalRemovals
    /\ p \in files
    /\ files' = files \ {p}
    /\ removals' = removals + 1
    /\ UNCHANGED <<registry, task, plan_calls, bad_requests>>

(***************************************************************************)
(* Capabilities                                                            *)
(***************************************************************************)
\* The "highlighted_moments" of the longest highlight-inference response: an
\* interval inside a 30 s source, then one whose end lies past it, and so on in turn.
CandidateItems ==
    [k \in 1..MaxIntervals |->
        IF k % 2 = 1 THEN [start_time |-> Some(20), end_time |-> Some(100)]
        ELSE [start_time |-> Some(250), end_time |-> Some(400)]]

\* What the text of a highlight-inference response can be: a JSON object (with
\* some first items of CandidateItems as "highlighted_moments", or without that
\* key), some other JSON value, or no JSON.
AnalysisResponses ==
    {[kind |-> "json_object", highlighted_moments |-> Some(SubSeq(CandidateItems, 1, n))] :
        n \in 0..MaxIntervals}
    \cup {[kind |-> "json_object", highlighted_moments |-> None],
          [kind |-> "json_other", highlighted_moments |-> None],
          [kind |-> "unparseable", highlighted_moments |-> None]}

\* range(3): the number of mock highlights.
MockCount == 3

\* Values of the two random.uniform draws of one fallback: both at their lower
\* bounds or both at their upper bounds, as tenths of segment_duration.
UniformDraws == {[start |-> 0, length |-> 5], [start |-> 3, length |-> 8]}

\* The mock highlights of analyze_video for a source of duration d.
MockHighlights(d, u) ==
    LET segment_duration == d \div 5
        start_time(i) == i * segment_duration + (u.start * segment_duration) \div 10
        end_time(i) == start_time(i) + (u.length * segment_duration) \div 10
    IN  [k \in 1..MockCount |->
            [start_time |-> Some(start_time(k - 1)),
             end_time |-> Some(IF end_time(k - 1) > d THEN d ELSE end_time(k - 1))]]

\* The value analyze_video returns for a response text r: json.loads of it, or the
\* mock highlights when json.loads raises JSONDecodeError.
analyze_video(r, d, u) ==
    IF r.kind = "unparseable"
    THEN [kind |-> "json_object", highlighted_moments |-> Some(MockHighlights(d, u))]
    ELSE r

\* VideoProcessor.extract_clip / extract_thumbnail: writes output_path, or raises.
\* st = [fs, raised].
extract_clip(st, start_time, end_time, output_path, ok) ==
    IF st.raised THEN st
    ELSE IF ok THEN [st EXCEPT !.fs = st.fs \cup {output_path}]
    ELSE [st EXCEPT !.raised = TRUE]

extract_thumbnail(st, time, output_path, ok) ==
    IF st.raised THEN st
    ELSE IF ok THEN [st EXCEPT !.fs = st.fs \cup {output_path}]
    ELSE [st EXCEPT !.raised = TRUE]

\* HighlightClip(...) as process_video builds it for the i-th item (i from 0).
NewHighlightClip(v, i, start_time, end_time) ==
    [id |-> HighlightId(v, i), video_id |-> v,
     start_time |-> start_time, end_time |-> end_time,
     clip_path |-> ClipPath(v, i), subtitle_path |-> SubtitlePath(v, i),
     thumbnail_path |-> ThumbnailPath(v, i)]

\* Items of "content_plan" the content-plan inference can return: one with every
\* field and an empty object.
FullItem ==
    [caption |-> Some("AI caption"), platform |-> Some("TikTok"),
     suggested_posting_date |-> Some(7)]

EmptyItem == [caption |-> None, platform |-> None, suggested_posting_date |-> None]

\* What the text of a content-plan response can be, for n highlights: a JSON
\* object whose "content_plan" has fewer, as many or more items than n (the first
\* with every field, the others empty objects) or is absent, some other JSON
\* value, or no JSON.
PlanResponses(n) ==
    {[kind |-> "json_object",
      content_plan |-> Some([k \in 1..m |-> IF k = 1 THEN FullItem ELSE EmptyItem])] :
        m \in 0..(n + 1)}
    \cup {[kind |-> "json_object", content_plan |-> None],
          [kind |-> "json_other", content_plan |-> None],
          [kind |-> "unparseable", content_plan |-> None]}

\* The message of the ValueError that generate_content_plan raises on an empty list.
NoHighlightsMessage == "No highlights provided for content plan generation"

\* generate_content_plan without its test for an empty list.
EmptyInput_Never(highlights) == FALSE

\* if not highlights: raise ValueError(...)
EmptyInput(highlights) == highlights = <<>>

\* The post built from item number k (from 1) of the parsed response.
ParsedPost(highlights, items, k) ==
    [clip_id |-> highlights[k].id,
     caption |-> Get(items[k].caption, "Check out this highlight!"),
     platform |-> Get(items[k].platform, "Instagram"),
     suggested_posting_date |-> Some(Get(items[k].suggested_posting_date, k))]

\* The loop over plan_items, which breaks at len(highlights).
ParsedPosts(highlights, items) ==
    [k \in 1..Min(Len(items), Len(highlights)) |-> ParsedPost(highlights, items, k)]

\* The post synthesized for highlight number k (from 1) when parsing failed.
FallbackPost(highlights, k) ==
    [clip_id |-> highlights[k].id,
     caption |-> "Check out this amazing highlight from our video!",
     platform |-> IF (k - 1) % 2 = 0 THEN "Instagram" ELSE "YouTube",
     suggested_posting_date |-> Some(k)]

FallbackPosts(highlights) ==
    [k \in 1..Len(highlights) |-> FallbackPost(highlights, k)]

\* Which exceptions the try of generate_content_plan catches.
PlanCaught == {"JSONDecodeError", "KeyError", "IndexError"}

\* The exception the try block raises on response r, or "" when it returns.
PlanTryRaises(highlights, r) ==
    IF r.kind = "unparseable" THEN "JSONDecodeError"
    ELSE IF highlights = <<>> THEN "IndexError"
    ELSE IF r.kind = "json_other" THEN "AttributeError"
    ELSE ""

\* generate_content_plan after the inference call returned r: the ContentPlan, or
\* the exception that leaves it.
generate_content_plan(highlights, r) ==
    LET e == PlanTryRaises(highlights, r)
    IN  IF e = ""
        THEN [raised |-> None,
              plan |-> [video_id |-> highlights[1].video_id, generated_date |-> 0,
                        posts |-> ParsedPosts(highlights, Get(r.content_plan, <<>>))]]
        ELSE IF e \notin PlanCaught THEN [raised |-> Some(e), plan |-> None]
        ELSE IF highlights = <<>> THEN [raised |-> Some("IndexError"), plan |-> None]
        ELSE [raised |-> None,
              plan |-> [video_id |-> highlights[1].video_id, generated_date |-> 0,
                        posts |-> FallbackPosts(highlights)]]

(***************************************************************************)
(* process_video, one action per stretch between two status writes or      *)
(* awaits                                                                  *)
(***************************************************************************)
\* The coroutine is over (returned, or left by an exception): its frame is gone.
Ended(pc) == [NoTask EXCEPT !.pc = pc]

\* An exception is raised inside the try: control goes to the except clause, which
\* reads no local of the try but the exception.
Raise(v, msg) == [task EXCEPT ![v] = [NoTask EXCEPT !.pc = "except", !.exc = Some(msg)]]

\* processing_status_db[video_id] = ProcessingStatus(video_id=video_id, status=s)
WriteStatus(v, s) == Put(processing_status_db, v, s)

\* Line 57: the task starts and writes PROCESSING.
StartTask(v) ==
    /\ Idle
    /\ task[v].pc = "scheduled"
    /\ processing_status_db' = WriteStatus(v, "PROCESSING")
    /\ task' = [task EXCEPT ![v].pc = "init_processor"]
    /\ UNCHANGED <<videos_db, highlights_db, content_plans_db, files, plan_calls,
                   removals, bad_requests>>

\* Lines 63-68: open the source, write duration and status onto the Job.
InitProcessor(v) ==
    /\ task[v].pc = "init_processor"
    /\ UNCHANGED <<highlights_db, content_plans_db, processing_status_db, files,
                   plan_calls, removals, bad_requests>>
    /\ IF UploadPath(v) \notin files
       THEN /\ task' = Raise(v, "Video file not found")
            /\ UNCHANGED videos_db
       ELSE \/ \E msg \in CapabilityErrors :
                /\ task' = Raise(v, msg)
                /\ UNCHANGED videos_db
            \/ \E d \in Durations :
                IF v \notin DOMAIN videos_db
                THEN /\ task' = Raise(v, "KeyError")
                     /\ UNCHANGED videos_db
                ELSE /\ videos_db' = [videos_db EXCEPT ![v].duration = Some(d),
                                                       ![v].processing_status = "PROCESSING"]
                     /\ task' = [task EXCEPT ![v].pc = "set_analyzing",
                                             ![v].duration = Some(d)]

\* Lines 71-77: write ANALYZING and await analyze_video.
SetAnalyzing(v) ==
    /\ task[v].pc = "set_analyzing"
    /\ processing_status_db' = WriteStatus(v, "ANALYZING")
    /\ task' = [task EXCEPT ![v].pc = "await_analyze"]
    /\ UNCHANGED <<videos_db, highlights_db, content_plans_db, files, plan_calls,
                   removals, bad_requests>>

\* Line 77 resumes: the inference call raised, or analyze_video returns.
AnalyzeReturn(v) ==
    /\ Idle
    /\ task[v].pc = "await_analyze"
    /\ UNCHANGED <<registry, files, plan_calls, removals, bad_requests>>
    /\ \/ \E msg \in CapabilityErrors : task' = Raise(v, msg)
       \/ \E r \in AnalysisResponses, u \in UniformDraws :
            task' = [task EXCEPT
                        ![v].pc = "set_extracting",
                        ![v].analysis_result =
                            Some(analyze_video(r, task[v].duration[1], u))]

\* SetExtracting writing the tag of an earlier stage.
SetExtracting_EarlierTag(v) ==
    /\ task[v].pc = "set_extracting"
    /\ processing_status_db' = WriteStatus(v, "PROCESSING")
    /\ UNCHANGED <<videos_db, highlights_db, content_plans_db, files, plan_calls,
                   removals, bad_requests>>
    /\ LET result == task[v].analysis_result[1]
       IN  IF result.kind # "json_object"
           THEN task' = Raise(v, "AttributeError")
           ELSE task' = [task EXCEPT
                            ![v].pc = "loop",
                            ![v].analysis_result = None,
                            ![v].highlights = Get(result.highlighted_moments, <<>>),
                            ![v].highlight_clips = <<>>,
                            ![v].i = 0]

\* Lines 80-86: write EXTRACTING_HIGHLIGHTS, read the candidate intervals.
SetExtracting(v) ==
    /\ task[v].pc = "set_extracting"
    /\ processing_status_db' = WriteStatus(v, "EXTRACTING_HIGHLIGHTS")
    /\ UNCHANGED <<videos_db, highlights_db, content_plans_db, files, plan_calls,
                   removals, bad_requests>>
    /\ LET result == task[v].analysis_result[1]
       IN  IF result.kind # "json_object"
           THEN task' = Raise(v, "AttributeError")
           ELSE task' = [task EXCEPT
                            ![v].pc = "loop",
                            ![v].analysis_result = None,
                            ![v].highlights = Get(result.highlighted_moments, <<>>),
                            ![v].highlight_clips = <<>>,
                            ![v].i = 0]

\* Lines 88-111 of one iteration: cut the clip and the thumbnail, await the subtitles.
ExtractNext(v) ==
    /\ task[v].pc = "loop"
    /\ task[v].i < Len(task[v].highlights)
    /\ UNCHANGED <<registry, plan_calls, removals, bad_requests>>
    /\ \E clip_ok \in BOOLEAN, thumbnail_ok \in BOOLEAN, msg \in CapabilityErrors :
        LET i == task[v].i
            highlight == task[v].highlights[i + 1]
            start_time == Get(highlight.start_time, 0)
            end_time == Get(highlight.end_time, 0)
            st0 == [fs |-> files, raised |-> FALSE]
            st1 == extract_clip(st0, start_time, end_time, ClipPath(v, i), clip_ok)
            st2 == extract_thumbnail(st1, start_time + (end_time - start_time) \div 2,
                                     ThumbnailPath(v, i), thumbnail_ok)
        IN  /\ clip_ok \/ thumbnail_ok
            /\ files' = st2.fs
            /\ task' = IF st2.raised THEN Raise(v, msg)
                       ELSE [task EXCEPT ![v].pc = "await_subtitles"]

\* SubtitlesReturn registering the new Highlight ahead of the earlier ones.
SubtitlesReturn_Prepend(v) ==
    /\ Idle
    /\ task[v].pc = "await_subtitles"
    /\ UNCHANGED <<videos_db, content_plans_db, processing_status_db, plan_calls,
                   removals, bad_requests>>
    /\ \/ \E msg \in CapabilityErrors :
            /\ task' = Raise(v, msg)
            /\ UNCHANGED <<highlights_db, files>>
       \/ LET i == task[v].i
              highlight == task[v].highlights[i + 1]
              highlight_clip == NewHighlightClip(v, i, Get(highlight.start_time, 0),
                                                 Get(highlight.end_time, 0))
          IN  /\ files' = files \cup {SubtitlePath(v, i)}
              /\ highlights_db' = <<highlight_clip>> \o highlights_db
              /\ task' = [task EXCEPT
                            ![v].pc = "loop",
                            ![v].i = i + 1,
                            ![v].highlight_clips = Append(@, highlight_clip)]

\* Lines 111-130: the subtitles arrive, are written, and the Highlight is registered.
SubtitlesReturn(v) ==
    /\ Idle
    /\ task[v].pc = "await_subtitles"
    /\ UNCHANGED <<videos_db, content_plans_db, processing_status_db, plan_calls,
                   removals, bad_requests>>
    /\ \/ \E msg \in CapabilityErrors :
            /\ task' = Raise(v, msg)
            /\ UNCHANGED <<highlights_db, files>>
       \/ LET i == task[v].i
              highlight == task[v].highlights[i + 1]
              highlight_clip == NewHighlightClip(v, i, Get(highlight.start_time, 0),
                                                 Get(highlight.end_time, 0))
          IN  /\ files' = files \cup {SubtitlePath(v, i)}
              /\ highlights_db' = Append(highlights_db, highlight_clip)
              /\ task' = [task EXCEPT
                            ![v].pc = "loop",
                            ![v].i = i + 1,
                            ![v].highlight_clips = Append(@, highlight_clip)]

\* SetGenerating leaving the loop before every candidate interval was handled.
SetGenerating_Early(v) ==
    /\ task[v].pc = "loop"
    /\ processing_status_db' = WriteStatus(v, "GENERATING_CONTENT_PLAN")
    /\ UNCHANGED <<videos_db, highlights_db, content_plans_db, files, removals, bad_requests>>
    /\ IF EmptyInput(task[v].highlight_clips)
       THEN /\ task' = Raise(v, NoHighlightsMessage)
            /\ UNCHANGED plan_calls
       ELSE /\ plan_calls' = plan_calls \cup {v}
            /\ task' = [task EXCEPT ![v].pc = "await_plan"]

\* Lines 133-138: write GENERATING_CONTENT_PLAN and call generate_content_plan,
\* which raises on an empty list and otherwise awaits the inference.
SetGenerating(v) ==
    /\ task[v].pc = "loop"
    /\ task[v].i = Len(task[v].highlights)
    /\ processing_status_db' = WriteStatus(v, "GENERATING_CONTENT_PLAN")
    /\ UNCHANGED <<videos_db, highlights_db, content_plans_db, files, removals, bad_requests>>
    /\ IF EmptyInput(task[v].highlight_clips)
       THEN /\ task' = Raise(v, NoHighlightsMessage)
            /\ UNCHANGED plan_calls
       ELSE /\ plan_calls' = plan_calls \cup {v}
            /\ task' = [task EXCEPT ![v].pc = "await_plan"]

\* Line 138 resumes: the inference call raised, or generate_content_plan parses.
PlanReturn(v) ==
    /\ Idle
    /\ task[v].pc = "await_plan"
    /\ UNCHANGED <<registry, files, plan_calls, removals, bad_requests>>
    /\ \/ \E msg \in CapabilityErrors : task' = Raise(v, msg)
       \/ \E r \in PlanResponses(Len(task[v].highlight_clips)) :
            LET out == generate_content_plan(task[v].highlight_clips, r)
            IN  task' = IF out.raised # None THEN Raise(v, out.raised[1])
                        ELSE [task EXCEPT ![v].pc = "store_plan",
                                          ![v].content_plan = Some(out.plan)]

\* StorePlan registering the plan, its path and the count without setting the
\* Job to COMPLETED.
StorePlan_NoStatus(v) ==
    /\ task[v].pc = "store_plan"
    /\ content_plans_db' = Put(content_plans_db, v, task[v].content_plan[1])
    /\ UNCHANGED <<highlights_db, processing_status_db, files, plan_calls, removals,
                   bad_requests>>
    /\ IF v \notin DOMAIN videos_db
       THEN /\ task' = Raise(v, "KeyError")
            /\ UNCHANGED videos_db
       ELSE /\ videos_db' = [videos_db EXCEPT
                                ![v].content_plan_path = Some(ContentPlanPath(v)),
                                ![v].highlights_count = Some(Len(task[v].highlight_clips))]
            /\ task' = [task EXCEPT ![v].pc = "set_completed", ![v].content_plan = None]

\* StorePlan counting the posts of the plan instead of the highlights.
StorePlan_CountPosts(v) ==
    /\ task[v].pc = "store_plan"
    /\ content_plans_db' = Put(content_plans_db, v, task[v].content_plan[1])
    /\ UNCHANGED <<highlights_db, processing_status_db, files, plan_calls, removals,
                   bad_requests>>
    /\ IF v \notin DOMAIN videos_db
       THEN /\ task' = Raise(v, "KeyError")
            /\ UNCHANGED videos_db
       ELSE /\ videos_db' = [videos_db EXCEPT
                                ![v].content_plan_path = Some(ContentPlanPath(v)),
                                ![v].highlights_count =
                                    Some(Len(task[v].content_plan[1].posts)),
                                ![v].processing_status = "COMPLETED"]
            /\ task' = [task EXCEPT ![v].pc = "set_completed", ![v].content_plan = None]

\* Lines 139-147: register the plan, set plan path, count and COMPLETED on the Job.
StorePlan(v) ==
    /\ task[v].pc = "store_plan"
    /\ content_plans_db' = Put(content_plans_db, v, task[v].content_plan[1])
    /\ UNCHANGED <<highlights_db, processing_status_db, files, plan_calls, removals, bad_requests>>
    /\ IF v \notin DOMAIN videos_db
       THEN /\ task' = Raise(v, "KeyError")
            /\ UNCHANGED videos_db
       ELSE /\ videos_db' = [videos_db EXCEPT
                                ![v].content_plan_path = Some(ContentPlanPath(v)),
                                ![v].highlights_count = Some(Len(task[v].highlight_clips)),
                                ![v].processing_status = "COMPLETED"]
            /\ task' = [task EXCEPT ![v].pc = "set_completed", ![v].content_plan = None]

\* Lines 150-153: write COMPLETED.
SetCompleted(v) ==
    /\ task[v].pc = "set_completed"
    /\ processing_status_db' = WriteStatus(v, "COMPLETED")
    /\ task' = [task EXCEPT ![v] = Ended("done")]
    /\ UNCHANGED <<videos_db, highlights_db, content_plans_db, files, plan_calls,
                   removals, bad_requests>>

\* The except clause also unregistering the Highlights the Job has so far.
HandleException_DropHighlights(v) ==
    /\ task[v].pc = "except"
    /\ UNCHANGED <<content_plans_db, processing_status_db, files, plan_calls, removals,
                   bad_requests>>
    /\ LET Other(h) == h.video_id # v
       IN  highlights_db' = SelectSeq(highlights_db, Other)
    /\ IF v \notin DOMAIN videos_db
       THEN /\ task' = [task EXCEPT ![v] = Ended("crashed")]
            /\ UNCHANGED videos_db
       ELSE /\ videos_db' = [videos_db EXCEPT ![v].processing_status = "ERROR",
                                              ![v].error_message = task[v].exc]
            /\ task' = [task EXCEPT ![v].pc = "set_error", ![v].exc = None]

\* The except clause setting ERROR on the Job without recording the message.
HandleException_NoMessage(v) ==
    /\ task[v].pc = "except"
    /\ UNCHANGED <<highlights_db, content_plans_db, processing_status_db, files,
                   plan_calls, removals, bad_requests>>
    /\ IF v \notin DOMAIN videos_db
       THEN /\ task' = [task EXCEPT ![v] = Ended("crashed")]
            /\ UNCHANGED videos_db
       ELSE /\ videos_db' = [videos_db EXCEPT ![v].processing_status = "ERROR"]
            /\ task' = [task EXCEPT ![v].pc = "set_error", ![v].exc = None]

\* The except clause recording the message but not the ERROR status on the Job.
HandleException_NoStatus(v) ==
    /\ task[v].pc = "except"
    /\ UNCHANGED <<highlights_db, content_plans_db, processing_status_db, files,
                   plan_calls, removals, bad_requests>>
    /\ IF v \notin DOMAIN videos_db
       THEN /\ task' = [task EXCEPT ![v] = Ended("crashed")]
            /\ UNCHANGED videos_db
       ELSE /\ videos_db' = [videos_db EXCEPT ![v].error_message = task[v].exc]
            /\ task' = [task EXCEPT ![v] = Ended("done")]

\* Lines 155-158: the except clause records ERROR and the message on the Job; the
\* lookup of a deleted Job raises KeyError, which leaves the coroutine.
HandleException(v) ==
    /\ task[v].pc = "except"
    /\ UNCHANGED <<highlights_db, content_plans_db, processing_status_db, files,
                   plan_calls, removals, bad_requests>>
    /\ IF v \notin DOMAIN videos_db
       THEN /\ task' = [task EXCEPT ![v] = Ended("crashed")]
            /\ UNCHANGED videos_db
       ELSE /\ videos_db' = [videos_db EXCEPT ![v].processing_status = "ERROR",
                                              ![v].error_message = task[v].exc]
            /\ task' = [task EXCEPT ![v].pc = "set_error", ![v].exc = None]

\* Lines 160-163: write ERROR.
SetError(v) ==
    /\ task[v].pc = "set_error"
    /\ processing_status_db' = WriteStatus(v, "ERROR")
    /\ task' = [task EXCEPT ![v] = Ended("done")]
    /\ UNCHANGED <<videos_db, highlights_db, content_plans_db, files, plan_calls,
                   removals, bad_requests>>

\* The paths a request or another process can name.
AllPaths ==
    {Path(dir, v, i) : dir \in {"uploads", "clips", "thumbnails", "subtitles"},
                       v \in VideoIds, i \in 0..Max(MaxIntervals, MockCount)}

\* Every step of the process_video coroutine of v.
TaskStep(v) ==
    \/ StartTask(v) \/ InitProcessor(v) \/ SetAnalyzing(v) \/ AnalyzeReturn(v)
    \/ SetExtracting(v) \/ ExtractNext(v) \/ SubtitlesReturn(v) \/ SetGenerating(v)
    \/ PlanReturn(v) \/ StorePlan(v) \/ SetCompleted(v) \/ HandleException(v)
    \/ SetError(v)

\* Concurrent uploads of supported media, deletes, and the coroutines.
Next ==
    \/ \E t \in allowed_types : upload_video(t)
    \/ \E v \in VideoIds : delete_video(v)
    \/ \E v \in VideoIds : StartTask(v)
    \/ \E v \in VideoIds : InitProcessor(v)
    \/ \E v \in VideoIds : SetAnalyzing(v)
    \/ \E v \in VideoIds : AnalyzeReturn(v)
    \/ \E v \in VideoIds : SetExtracting(v)
    \/ \E v \in VideoIds : ExtractNext(v)
    \/ \E v \in VideoIds : SubtitlesReturn(v)
    \/ \E v \in VideoIds : SetGenerating(v)
    \/ \E v \in VideoIds : PlanReturn(v)
    \/ \E v \in VideoIds : StorePlan(v)
    \/ \E v \in VideoIds : SetCompleted(v)
    \/ \E v \in VideoIds : HandleException(v)
    \/ \E v \in VideoIds : SetError(v)

Spec == Init /\ [][Next]_vars

\* Only the first uuid is ever drawn.
OneUpload == \A v \in VideoIds : IdOrder[v] > 1 => task'[v].pc = "none"

\* One upload, of any declared media type; deletes; the coroutine; and other
\* processes removing artifact files from storage.
SoloNext ==
    \/ \E t \in ContentTypes : upload_video(t) /\ OneUpload
    \/ \E v \in VideoIds : delete_video(v)
    \/ \E p \in AllPaths : ExternalRemove(p)
    \/ \E v \in VideoIds : StartTask(v)
    \/ \E v \in VideoIds : InitProcessor(v)
    \/ \E v \in VideoIds : SetAnalyzing(v)
    \/ \E v \in VideoIds : AnalyzeReturn(v)
    \/ \E v \in VideoIds : SetExtracting(v)
    \/ \E v \in VideoIds : ExtractNext(v)
    \/ \E v \in VideoIds : SubtitlesReturn(v)
    \/ \E v \in VideoIds : SetGenerating(v)
    \/ \E v \in VideoIds : PlanReturn(v)
    \/ \E v \in VideoIds : StorePlan(v)
    \/ \E v \in VideoIds : SetCompleted(v)
    \/ \E v \in VideoIds : HandleException(v)
    \/ \E v \in VideoIds : SetError(v)

SoloSpec == Init /\ [][SoloNext]_vars

\* SoloSpec where the event loop runs every coroutine that can run and every
\* capability call returns or raises.
FairSpec == SoloSpec /\ \A v \in VideoIds : WF_vars(TaskStep(v))

(***************************************************************************)
(* Properties                                                              *)
(***************************************************************************)
Terminal == {"COMPLETED", "ERROR"}

\* The place of a stage tag in the stage order.
StageRank(s) ==
    CASE s = "SUBMITTED" -> 0
      [] s = "PROCESSING" -> 1
      [] s = "ANALYZING" -> 2
      [] s = "EXTRACTING_HIGHLIGHTS" -> 3
      [] s = "GENERATING_CONTENT_PLAN" -> 4
      [] s = "COMPLETED" -> 5
      [] OTHER -> 6

\* A status may stay, move to a later stage, or (from a non-terminal stage) to ERROR.
LegalMove(a, b) ==
    \/ a = b
    \/ /\ a \notin Terminal
       /\ \/ b = "ERROR"
          \/ b # "ERROR" /\ StageRank(b) <= 5 /\ StageRank(b) > StageRank(a)

\* The uuids that were handed to an upload.
Issued == {v \in VideoIds : task[v].pc # "none"}

\* The videos that were uploaded and then deleted.
Deleted == Issued \ DOMAIN videos_db

\* C1: every change of a Job's status, in its ProcessingStatus record and in its
\* VideoMetadata, goes to a later stage of SUBMITTED, PROCESSING, ANALYZING,
\* EXTRACTING_HIGHLIGHTS, GENERATING_CONTENT_PLAN, COMPLETED, or from a
\* non-terminal stage to ERROR; a record's first tag is PROCESSING and each later
\* tag is the next stage or ERROR; COMPLETED and ERROR never change.
C1_StatusFollowsStageOrder ==
    [][\A v \in VideoIds :
        /\ (v \in DOMAIN videos_db /\ v \in DOMAIN videos_db')
            => LegalMove(videos_db[v].processing_status, videos_db'[v].processing_status)
        /\ (v \in DOMAIN processing_status_db /\ v \in DOMAIN processing_status_db')
            => /\ LegalMove(processing_status_db[v], processing_status_db'[v])
               /\ processing_status_db'[v] \notin {processing_status_db[v], "ERROR"}
                    => StageRank(processing_status_db'[v])
                            = StageRank(processing_status_db[v]) + 1
        /\ (v \in DOMAIN videos_db /\ task[v].pc = "scheduled"
                /\ v \in DOMAIN processing_status_db')
            => processing_status_db'[v] = "PROCESSING"
      ]_vars

\* C1 witness: a Job went through every stage to COMPLETED, another ended in ERROR.
C1_Witness ==
    /\ \E v \in DOMAIN videos_db :
        /\ v \in DOMAIN processing_status_db
        /\ processing_status_db[v] = "COMPLETED"
        /\ videos_db[v].processing_status = "COMPLETED"
    /\ \E v \in DOMAIN videos_db :
        /\ v \in DOMAIN processing_status_db
        /\ processing_status_db[v] = "ERROR"

\* A Job in the registry whose coroutine is over has a terminal status in both
\* places, and an ERROR comes with the message of the exception.
EndedJobsAreTerminal ==
    \A v \in DOMAIN videos_db :
        task[v].pc \in {"done", "crashed"}
            => /\ videos_db[v].processing_status \in Terminal
               /\ v \in DOMAIN processing_status_db
               /\ processing_status_db[v] = videos_db[v].processing_status
               /\ videos_db[v].processing_status = "ERROR"
                    => videos_db[v].error_message # None

\* C2: every Job in the registry eventually has a terminal status (or is deleted),
\* given that every capability call returns or raises; when its coroutine is over
\* the status is COMPLETED or ERROR, and ERROR comes with the exception's message.
C2_EveryJobReachesTerminal ==
    /\ []EndedJobsAreTerminal
    /\ \A v \in VideoIds :
        (v \in DOMAIN videos_db)
            ~> (v \notin DOMAIN videos_db
                \/ (/\ videos_db[v].processing_status \in Terminal
                    /\ task[v].pc = "done"))

\* C2 witness: an exception was raised in a stage and the Job is in ERROR with a message.
C2_Witness ==
    \E v \in DOMAIN videos_db :
        /\ task[v].pc = "done"
        /\ videos_db[v].processing_status = "ERROR"
        /\ videos_db[v].error_message = Some("CapabilityFailure")
        /\ v \in DOMAIN processing_status_db
        /\ processing_status_db[v] = "ERROR"

\* C3: every Highlight in the registry lies within its Job's source:
\* 0 <= start_time < end_time <= duration.
C3_HighlightsWithinSource ==
    \A k \in 1..Len(highlights_db) :
        LET h == highlights_db[k]
        IN  (h.video_id \in DOMAIN videos_db /\ videos_db[h.video_id].duration # None)
                => /\ 0 <= h.start_time
                   /\ h.start_time < h.end_time
                   /\ h.end_time <= videos_db[h.video_id].duration[1]

\* C4: the step that deletes a Job leaves no Highlight owned by it and no
\* ContentPlan of it in the registry, and from then on Fetch Highlights and Fetch
\* ContentPlan for its identifier answer NotFound (404).
C4_DeleteRemovesHighlightsAndPlan ==
    /\ [](\A v \in Deleted :
            get_highlights(v).status = 404 /\ get_content_plan(v).status = 404)
    /\ [][\A v \in VideoIds :
            (v \in DOMAIN videos_db /\ v \notin DOMAIN videos_db')
                => /\ \A k \in 1..Len(highlights_db') : highlights_db'[k].video_id # v
                   /\ v \notin DOMAIN content_plans_db'
         ]_vars

\* C4 witness: a Job that had reached COMPLETED, with Highlights and a plan, was
\* deleted while another Job keeps its Highlights.
C4_Witness ==
    \E v \in Deleted :
        /\ task[v].pc = "done"
        /\ v \in plan_calls
        /\ get_highlights(v).status = 404
        /\ get_content_plan(v).status = 404
        /\ v \notin DOMAIN content_plans_db
        /\ \A k \in 1..Len(highlights_db) : highlights_db[k].video_id # v
        /\ \E w \in DOMAIN videos_db : HighlightsOf(w) # <<>>

\* The artifact files that the registry entries of v refer to.
ReferencedFiles(v) ==
    {videos_db[v].upload_path}
    \cup UNION {{HighlightsOf(v)[k].clip_path, HighlightsOf(v)[k].thumbnail_path,
                 HighlightsOf(v)[k].subtitle_path} : k \in 1..Len(HighlightsOf(v))}

\* C5 as stated: Delete Job never raises for a video that was uploaded: neither
\* when files of it are missing nor when it is deleted a second time.
C5_DeleteNeverRaises ==
    \A v \in Issued : delete_status(v) = 200

\* C5 as amended: Delete Job of a Job in the registry succeeds whichever of its
\* artifact files are missing; Delete Job of a Job already deleted is answered
\* NotFound (404).
C5_DeleteToleratesMissingFiles ==
    \A v \in Issued :
        delete_status(v) = IF v \in DOMAIN videos_db THEN 200 ELSE 404

\* C5 witness: another process removed a file that a Job in the registry refers to,
\* and Delete Job of that Job succeeds.
C5_Witness ==
    \E v \in DOMAIN videos_db :
        /\ removals > 0
        /\ HighlightsOf(v) # <<>>
        /\ ReferencedFiles(v) \ files # {}
        /\ delete_status(v) = 200

\* C6: generate_content_plan called with no Highlights raises before the
\* content-plan inference is called, and the Job ends in ERROR, never COMPLETED.
C6_EmptyPlanFailsFast ==
    /\ [](\A v \in VideoIds :
            /\ task[v].exc = Some(NoHighlightsMessage) => v \notin plan_calls
            /\ v \in DOMAIN videos_db =>
                /\ videos_db[v].error_message = Some(NoHighlightsMessage)
                    => (videos_db[v].processing_status = "ERROR" /\ v \notin plan_calls)
                /\ videos_db[v].processing_status = "COMPLETED"
                    => (v \in plan_calls /\ videos_db[v].highlights_count # Some(0)))
    /\ [][\A v \in VideoIds :
            (task[v].pc = "loop" /\ task[v].i = Len(task[v].highlights)
                /\ task[v].highlight_clips = <<>> /\ task'[v] # task[v])
                => /\ task'[v].pc = "except"
                   /\ task'[v].exc = Some(NoHighlightsMessage)
                   /\ plan_calls' = plan_calls
         ]_vars

\* C6 witness: a Job without Highlights is in ERROR with the empty-input message
\* and the content-plan inference was never called for it.
C6_Witness ==
    \E v \in DOMAIN videos_db :
        /\ task[v].pc = "done"
        /\ videos_db[v].processing_status = "ERROR"
        /\ videos_db[v].error_message = Some(NoHighlightsMessage)
        /\ v \notin plan_calls

\* The response texts that cannot be parsed as the expected JSON object.
Unparseable(r) == r.kind \in {"unparseable", "json_other"}

\* C7: whenever a Job awaits the content-plan inference, every response that
\* cannot be parsed yields a plan with one synthesized post per Highlight, with a
\* non-empty caption, a platform and a posting date after the generation date, and
\* raises nothing.
C7_UnparseablePlanFallsBack ==
    \A v \in VideoIds :
        task[v].pc = "await_plan" =>
            \A r \in PlanResponses(Len(task[v].highlight_clips)) :
                Unparseable(r) =>
                    LET hs == task[v].highlight_clips
                        out == generate_content_plan(hs, r)
                    IN  /\ out.raised = None
                        /\ Len(out.plan.posts) = Len(hs)
                        /\ \A k \in 1..Len(hs) :
                            /\ out.plan.posts[k].clip_id = hs[k].id
                            /\ out.plan.posts[k].caption # ""
                            /\ out.plan.posts[k].platform # ""
                            /\ out.plan.posts[k].suggested_posting_date[1]
                                    > out.plan.generated_date

\* C8: the ContentPlan of a COMPLETED Job has one post per Highlight of the Job, in
\* highlight order, post k referring to Highlight k.
C8_OnePostPerHighlight ==
    \A v \in DOMAIN videos_db :
        (videos_db[v].processing_status = "COMPLETED" /\ v \in DOMAIN content_plans_db)
            => LET posts == content_plans_db[v].posts
                   hs == HighlightsOf(v)
               IN  /\ Len(posts) = Len(hs)
                   /\ \A k \in 1..Len(posts) : posts[k].clip_id = hs[k].id

\* C9: a COMPLETED Job has highlights_count equal to the number of its Highlights
\* in the registry and a content-plan reference; and at the step that completes it
\* that number is the number of candidate intervals the analysis returned.
C9_CompletedCountsHighlights ==
    /\ [](\A v \in DOMAIN videos_db :
            videos_db[v].processing_status = "COMPLETED"
                => /\ videos_db[v].highlights_count = Some(Len(HighlightsOf(v)))
                   /\ videos_db[v].content_plan_path # None)
    /\ [][\A v \in VideoIds :
            (v \in DOMAIN videos_db /\ v \in DOMAIN videos_db'
                /\ videos_db[v].processing_status # "COMPLETED"
                /\ videos_db'[v].processing_status = "COMPLETED")
                => videos_db'[v].highlights_count = Some(Len(task[v].highlights))
         ]_vars

\* C9 witness: a COMPLETED Job with two Highlights and highlights_count = 2.
C9_Witness ==
    \E v \in DOMAIN videos_db :
        /\ videos_db[v].processing_status = "COMPLETED"
        /\ videos_db[v].highlights_count = Some(2)
        /\ Len(HighlightsOf(v)) = 2

\* C10: an upload whose declared media type is not supported is answered 400 and
\* changes none of the four registry maps, writes no file and schedules no task.
C10_UnsupportedUploadRejected ==
    /\ [](\A t \in ContentTypes \ allowed_types : upload_status(t) = 400)
    /\ [](bad_requests \cap allowed_types = {})
    /\ [][bad_requests' # bad_requests => UNCHANGED <<registry, task, files>>]_vars
    /\ [][\A t \in ContentTypes \ allowed_types :
            upload_video(t) => UNCHANGED <<registry, task, files>>]_vars

\* C10 witness: an upload of an unsupported type was answered 400 while a Job is
\* in the registry.
C10_Witness ==
    /\ bad_requests # {}
    /\ videos_db # <<>>

\* The highlight inference of v raised in the ANALYZING stage and process_video is
\* in its except clause: the record still holds ANALYZING.
AnalysisFailed(v) ==
    /\ v \in DOMAIN videos_db
    /\ v \in DOMAIN processing_status_db
    /\ processing_status_db[v] = "ANALYZING"
    /\ task[v].pc \in {"except", "set_error"}

\* C11: when the highlight inference raises in the ANALYZING stage, the status
\* record goes from ANALYZING straight to ERROR, the message recorded on the Job is
\* not empty, the Job has no Highlight then or later, and Fetch ContentPlan answers
\* NotFound.
C11_AnalysisFailureGoesToError ==
    /\ [](\A v \in VideoIds :
            AnalysisFailed(v)
                => /\ HighlightsOf(v) = <<>>
                   /\ get_content_plan(v).status = 404
                   /\ task[v].pc = "except" => task[v].exc \notin {None, Some("")}
                   /\ task[v].pc = "set_error"
                        => /\ videos_db[v].processing_status = "ERROR"
                           /\ videos_db[v].error_message \notin {None, Some("")})
    /\ [][\A v \in VideoIds :
            /\ (AnalysisFailed(v) /\ v \in DOMAIN processing_status_db')
                => processing_status_db'[v] \in {"ANALYZING", "ERROR"}
            /\ task[v].pc \in {"except", "set_error", "done", "crashed"}
                => \A k \in 1..Len(highlights_db') :
                    highlights_db'[k].video_id = v
                        => \E j \in 1..Len(highlights_db) :
                            highlights_db[j] = highlights_db'[k]
         ]_vars

\* C12: whenever a request can be served (no coroutine is between two awaits),
\* every Job in the registry that has a ProcessingStatus record has the record's
\* stage tag as its own processing_status.
C12_StatusFieldsAgree ==
    Idle => \A v \in DOMAIN videos_db :
                v \in DOMAIN processing_status_db
                    => processing_status_db[v] = videos_db[v].processing_status

\* C13: whenever a request can be served, Poll status of a Job in the registry
\* answers with the stage tag last written for it, and Poll status answers NotFound
\* (404) only for an identifier that has no Job in the registry.
C13_PollFindsEveryJob ==
    Idle => \A v \in VideoIds :
                /\ v \in DOMAIN videos_db
                    => /\ get_processing_status(v).status = 200
                       /\ get_processing_status(v).body = processing_status_db[v]
                /\ get_processing_status(v).status = 404 => v \notin DOMAIN videos_db

\* The Highlights in the highlight map db whose video_id is v, in insertion order.
OwnedIn(db, v) == LET Owned(h) == h.video_id = v IN SelectSeq(db, Owned)

\* C14: every step that inserts a Highlight into highlights_db is taken while a Job
\* with the Highlight's video_id is in videos_db, whatever Delete Job requests were
\* served while the task was suspended.
C14_HighlightOwnerExistsAtInsertion ==
    [][\A v \in VideoIds :
        Len(OwnedIn(highlights_db', v)) > Len(OwnedIn(highlights_db, v))
            => (v \in DOMAIN videos_db /\ v \in DOMAIN videos_db')
      ]_vars

\* Every file path stored on a Highlight in the registry names a file in storage.
HighlightFilesExist ==
    \A k \in 1..Len(highlights_db) :
        {highlights_db[k].clip_path, highlights_db[k].thumbnail_path,
         highlights_db[k].subtitle_path} \subseteq files

\* The upload_path of every Job in the registry names a file in storage.
UploadFilesExist ==
    \A v \in DOMAIN videos_db : videos_db[v].upload_path \in files

\* C15: with no other process removing files, every file reference stored on a Job
\* (upload_path, content_plan_path) or on a Highlight (clip_path, thumbnail_path,
\* subtitle_path) in the registry names a file in storage; so a COMPLETED Job's
\* content_plan_path names a content-plan file that was written.
C15_FileReferencesExist ==
    /\ removals = 0 => (UploadFilesExist /\ HighlightFilesExist)
    /\ removals = 0 =>
        \A v \in DOMAIN videos_db :
            videos_db[v].content_plan_path # None
                => videos_db[v].content_plan_path[1] \in files

\* C16: the step of Delete Job that removes a Job also removes its
\* ProcessingStatus record and leaves in storage none of the files the removed
\* entities referred to: the upload and each Highlight's clip, thumbnail and
\* subtitle file.
C16_DeleteRemovesStatusAndFiles ==
    [][\A v \in VideoIds :
        (v \in DOMAIN videos_db /\ v \notin DOMAIN videos_db')
            => /\ v \notin DOMAIN processing_status_db'
               /\ ReferencedFiles(v) \cap files' = {}
      ]_vars

\* C16 witness: a COMPLETED Job with Highlights was deleted: its status record is
\* gone and storage holds no upload, clip, thumbnail or subtitle file of it.
C16_Witness ==
    \E v \in Deleted :
        /\ task[v].pc = "done"
        /\ v \in plan_calls
        /\ v \notin DOMAIN processing_status_db
        /\ \A q \in files : q.job # v

\* Positions of process_video at which the candidate intervals are in its frame.
HasIntervals == {"loop", "await_subtitles", "await_plan", "store_plan", "set_completed"}

\* C17: Fetch Highlights answers NotFound (404) exactly for an identifier without a
\* Job in videos_db; for a Job it answers with the Highlights whose video_id is the
\* Job's and no others, the k-th of them made in the k-th iteration from the k-th
\* candidate interval of the analysis (the empty list when none is registered yet).
C17_FetchHighlightsOwnedInOrder ==
    \A v \in VideoIds :
        /\ get_highlights(v).status = 404 <=> v \notin DOMAIN videos_db
        /\ v \in DOMAIN videos_db =>
            LET body == get_highlights(v).body
            IN  /\ get_highlights(v).status = 200
                /\ \A k \in 1..Len(body) :
                    /\ body[k].video_id = v
                    /\ body[k].id = HighlightId(v, k - 1)
                /\ Len(body) = Cardinality({k \in 1..Len(highlights_db) :
                                                highlights_db[k].video_id = v})
                /\ task[v].pc \in HasIntervals =>
                    /\ Len(body) = task[v].i
                    /\ \A k \in 1..Len(body) :
                        /\ body[k].start_time
                            = Get(task[v].highlights[k].start_time, 0)
                        /\ body[k].end_time = Get(task[v].highlights[k].end_time, 0)

\* C17 witness: Highlights of two Jobs were registered in turn, and Fetch
\* Highlights of one of them answers with its two Highlights.
C17_Witness ==
    \E v \in DOMAIN videos_db :
        /\ Len(get_highlights(v).body) = 2
        /\ Len(highlights_db) >= 3
        /\ highlights_db[1].video_id = v
        /\ highlights_db[2].video_id # v
        /\ highlights_db[3].video_id = v

\* C18: the step that inserts the ContentPlan of a Job is taken only when the loop
\* over the candidate intervals has registered a Highlight for every one of them,
\* and while a ContentPlan of the Job is in the registry no Highlight of the Job is
\* inserted.
C18_PlanAfterAllHighlights ==
    [][\A v \in VideoIds :
        /\ (v \notin DOMAIN content_plans_db /\ v \in DOMAIN content_plans_db')
            => /\ task[v].i = Len(task[v].highlights)
               /\ Len(task[v].highlight_clips) = Len(task[v].highlights)
               /\ v \in DOMAIN videos_db
                    => Len(HighlightsOf(v)) = Len(task[v].highlights)
        /\ v \in DOMAIN content_plans_db
            => Len(OwnedIn(highlights_db', v)) <= Len(OwnedIn(highlights_db, v))
      ]_vars

\* C18 witness: the ContentPlan of a Job with two Highlights is in the registry.
C18_Witness ==
    \E v \in DOMAIN videos_db :
        /\ v \in DOMAIN content_plans_db
        /\ Len(HighlightsOf(v)) = 2
        /\ Len(content_plans_db[v].posts) = 2

\* The registry entries that belong to Job b: its VideoMetadata, its Highlights, its
\* ContentPlan and its ProcessingStatus record.
EntriesOf(b) ==
    [job |-> IF b \in DOMAIN videos_db THEN Some(videos_db[b]) ELSE None,
     highlights |-> OwnedIn(highlights_db, b),
     plan |-> IF b \in DOMAIN content_plans_db THEN Some(content_plans_db[b]) ELSE None,
     status |-> IF b \in DOMAIN processing_status_db
                THEN Some(processing_status_db[b]) ELSE None]

\* An operation on Job a: a step of its task (a stage failure included), a Delete
\* Job of it (answered NotFound included), or the upload that creates it.
OperationOn(a) ==
    \/ TaskStep(a)
    \/ delete_video(a)
    \/ /\ task[a].pc = "none"
       /\ NextId = a
       /\ \E t \in allowed_types : upload_video(t)

\* C19: an operation on Job a changes no registry entry of any other Job b, under
\* every interleaving of the two tasks; a query or delete answered NotFound changes
\* nothing at all.
C19_OtherJobsUntouched ==
    [][\A a \in VideoIds :
        /\ OperationOn(a) => \A b \in VideoIds \ {a} : EntriesOf(b)' = EntriesOf(b)
        /\ (delete_video(a) /\ delete_status(a) = 404) => UNCHANGED <<registry, files>>
      ]_vars

\* C19 witness: Job a had Highlights and a plan and was deleted, while Job b is in
\* the registry with its Highlights, its plan and its status record.
C19_Witness ==
    \E a \in Deleted, b \in DOMAIN videos_db :
        /\ task[a].pc = "done"
        /\ a \in plan_calls
        /\ OwnedIn(highlights_db, a) = <<>>
        /\ EntriesOf(b).highlights # <<>>
        /\ EntriesOf(b).plan # None
        /\ EntriesOf(b).status = Some("COMPLETED")

\* C20: whenever a Job awaits the highlight inference, every response that cannot
\* be parsed as the expected JSON object makes analyze_video return MockCount
\* (three) placeholder intervals, each with 0 <= start_time < end_time <= duration,
\* in a result from which process_video reads its intervals without raising, so
\* that the Job goes on to EXTRACTING_HIGHLIGHTS and not to ERROR.
C20_MalformedAnalysisFallsBack ==
    \A v \in VideoIds :
        task[v].pc = "await_analyze" =>
            \A r \in AnalysisResponses, u \in UniformDraws :
                Unparseable(r) =>
                    LET d == task[v].duration[1]
                        result == analyze_video(r, d, u)
                        moments == Get(result.highlighted_moments, <<>>)
                    IN  /\ result.kind = "json_object"
                        /\ Len(moments) = MockCount
                        /\ \A k \in 1..Len(moments) :
                            /\ 0 <= moments[k].start_time[1]
                            /\ moments[k].start_time[1] < moments[k].end_time[1]
                            /\ moments[k].end_time[1] <= d

\* C21: whenever a request can be served, a video that was deleted has no entry in
\* any of the four registry maps (no VideoMetadata, no Highlight with its video_id,
\* no ContentPlan, no ProcessingStatus record) and Poll status of it answers
\* NotFound (404), also when its task was suspended in an await at the delete.
C21_DeletedJobLeavesNothing ==
    Idle => \A v \in Deleted :
                /\ EntriesOf(v).job = None
                /\ EntriesOf(v).highlights = <<>>
                /\ EntriesOf(v).plan = None
                /\ EntriesOf(v).status = None
                /\ get_processing_status(v).status = 404

\* C22: no process_video coroutine is ever left by an exception: whenever its
\* except clause is entered it runs to its last statement, also when the Job was
\* deleted while the coroutine was suspended in a capability call.
C22_HandlerAlwaysCompletes ==
    \A v \in VideoIds : task[v].pc # "crashed"

\* The clip, thumbnail and subtitle files in storage that process_video made for v.
ArtifactsOf(v) ==
    {q \in files : q.job = v /\ q.dir \in {"clips", "thumbnails", "subtitles"}}

\* C23: when the run of a Job's pipeline is over, however it ended, every clip,
\* thumbnail and subtitle file made for the Job is referenced by a Highlight of the
\* Job in the registry; and once such a Job has been deleted, storage holds no file
\* of it.
C23_NoOrphanFiles ==
    \A v \in VideoIds :
        task[v].pc = "done" =>
            /\ v \in DOMAIN videos_db => ArtifactsOf(v) \subseteq ReferencedFiles(v)
            /\ v \notin DOMAIN videos_db => {q \in files : q.job = v} = {}

\* process_video of v leaves the loop by an exception of extract_clip or
\* extract_thumbnail in the iteration of candidate interval task[v].i (from 0).
ExtractionFails(v) ==
    /\ task[v].pc = "loop"
    /\ task[v].i < Len(task[v].highlights)
    /\ task'[v].pc = "except"

\* C24: when extraction fails in the iteration of candidate interval k of a Job in
\* the registry, Fetch Highlights answers with exactly the k Highlights of the
\* earlier intervals, the except clause that follows sets the Job to ERROR, and
\* neither the failure nor the except clause unregisters a Highlight.
C24_ExtractionFailureKeepsHighlights ==
    [][\A v \in DOMAIN videos_db :
        /\ ExtractionFails(v)
            => /\ get_highlights(v)' = get_highlights(v)
               /\ Len(get_highlights(v).body) = task[v].i
               /\ \A k \in 1..task[v].i :
                    get_highlights(v).body[k].id = HighlightId(v, k - 1)
        /\ task[v].pc = "except"
            => /\ get_highlights(v)' = get_highlights(v)
               /\ videos_db'[v].processing_status = "ERROR"
        /\ task[v].pc = "set_error"
            => /\ get_highlights(v)' = get_highlights(v)
               /\ processing_status_db'[v] = "ERROR"
               /\ task'[v].pc = "done"
      ]_vars

\* C24 witness: extraction failed in the iteration of the second interval (its
\* clip was cut, no Highlight was made of it); the Job is in ERROR and Fetch
\* Highlights answers with the one Highlight of the first interval.
C24_Witness ==
    \E v \in DOMAIN videos_db :
        /\ task[v].pc = "done"
        /\ videos_db[v].processing_status = "ERROR"
        /\ processing_status_db[v] = "ERROR"
        /\ Len(get_highlights(v).body) = 1
        /\ get_highlights(v).body[1].id = HighlightId(v, 0)
        /\ ClipPath(v, 1) \in files
        /\ SubtitlePath(v, 1) \notin files

\* C25: for every Job in the registry, a ContentPlan is registered for it only if
\* its processing_status is COMPLETED (never when it is ERROR), and its
\* highlights_count and its content_plan_path are set exactly when its
\* processing_status is COMPLETED.
C25_PlanOnlyWhenCompleted ==
    \A v \in DOMAIN videos_db :
        LET job == videos_db[v]
        IN  /\ v \in DOMAIN content_plans_db => job.processing_status = "COMPLETED"
            /\ job.processing_status = "ERROR" => v \notin DOMAIN content_plans_db
            /\ job.highlights_count # None <=> job.processing_status = "COMPLETED"
            /\ job.content_plan_path # None <=> job.processing_status = "COMPLETED"

\* C25 witness: one Job is COMPLETED with its plan, count and plan path; another
\* is in ERROR after registering a Highlight, with no plan, count or plan path.
C25_Witness ==
    \E v \in DOMAIN videos_db, w \in DOMAIN videos_db :
        /\ videos_db[v].processing_status = "COMPLETED"
        /\ v \in DOMAIN content_plans_db
        /\ videos_db[v].highlights_count # None
        /\ videos_db[v].content_plan_path # None
        /\ videos_db[w].processing_status = "ERROR"
        /\ HighlightsOf(w) # <<>>
        /\ w \notin DOMAIN content_plans_db
        /\ videos_db[w].highlights_count = None
        /\ videos_db[w].content_plan_path = None

\* C26: for every Job in the registry, error_message is set (to the text of the
\* exception, which may be the empty text) exactly when processing_status is ERROR.
C26_ErrorMessageIffError ==
    \A v \in DOMAIN videos_db :
        videos_db[v].error_message # None <=> videos_db[v].processing_status = "ERROR"

\* C26 witness: one Job is in ERROR with the empty text as its message, another is
\* COMPLETED and has no message.
C26_Witness ==
    \E v \in DOMAIN videos_db, w \in DOMAIN videos_db :
        /\ videos_db[v].processing_status = "ERROR"
        /\ videos_db[v].error_message = Some("")
        /\ videos_db[w].processing_status = "COMPLETED"
        /\ videos_db[w].error_message = None

====
